---- MODULE Spec2Model ----
(***************************************************************************)
(* Model of scrape_weekend_time.py: fetch_content, extract_time_ranges     *)
(* (with its helpers parse_week_spec, choose_table_time, finalize_table)   *)
(* and main.                                                               *)
(*                                                                         *)
(* Text is modelled at the level the code inspects it.  A week             *)
(* specification is a sequence of characters (one-character strings; the   *)
(* non-ASCII ones are named: "zhou" = U+5468, "endash" = U+2013,          *)
(* "fwcomma" = U+FF0C, "ideocomma" = U+3001).                              *)
(***************************************************************************)
EXTENDS Integers, Sequences, FiniteSets, TLC

\* Python's None where the other values are sequences (a failed match, no
\* pending day): the empty sequence, which is falsy as None is
None == <<>>

(***************************************************************************)
(* Characters and the primitive string operations used by parse_week_spec. *)
(***************************************************************************)
Digits == {"0", "1", "2", "3", "4", "5", "6", "7", "8", "9"}

DigitVal ==
    ("0" :> 0) @@ ("1" :> 1) @@ ("2" :> 2) @@ ("3" :> 3) @@ ("4" :> 4) @@
    ("5" :> 5) @@ ("6" :> 6) @@ ("7" :> 7) @@ ("8" :> 8) @@ ("9" :> 9)

\* [,，、]
Commas == {",", "fwcomma", "ideocomma"}

\* [-~–]
Dashes == {"-", "~", "endash"}

\* \s
Spaces == {" "}

Least(S) == CHOOSE i \in S : \A j \in S : i <= j
Greatest(S) == CHOOSE i \in S : \A j \in S : j <= i

\* 10 ^ n
Pow10[n \in Nat] == IF n = 0 THEN 1 ELSE 10 * Pow10[n - 1]

\* the sum of the values of f
Sum(f) ==
    LET acc[n \in 0 .. Len(f)] == IF n = 0 THEN 0 ELSE acc[n - 1] + f[n]
    IN  acc[Len(f)]

\* int(s) for a run of digits
ToInt(ds) == Sum([i \in 1 .. Len(ds) |-> DigitVal[ds[i]] * Pow10[Len(ds) - i]])

\* the pieces of s between the positions seps, in order, empty ones kept
PieceStart(seps, k) ==
    IF k = 1 THEN 1
    ELSE Least({i \in seps : Cardinality({j \in seps : j <= i}) = k - 1}) + 1

PieceEnd(s, seps, k) ==
    IF k = Cardinality(seps) + 1 THEN Len(s)
    ELSE Least({i \in seps : Cardinality({j \in seps : j <= i}) = k}) - 1

Pieces(s, seps) ==
    [k \in 1 .. Cardinality(seps) + 1 |->
        SubSeq(s, PieceStart(seps, k), PieceEnd(s, seps, k))]

\* re.split(r"[,，、]", spec)
Split(s) == Pieces(s, {i \in 1 .. Len(s) : s[i] \in Commas})

\* s with the characters of the set chars removed at both ends
Keep(s, kept) == IF kept = {} THEN <<>> ELSE SubSeq(s, Least(kept), Greatest(kept))

StripChars(s, chars) == Keep(s, {i \in 1 .. Len(s) : s[i] \notin chars})

\* str.strip(): whitespace removed at both ends
Strip(s) == StripChars(s, Spaces)

\* token.replace("周", "")
RemoveZhou(s) == SelectSeq(s, LAMBDA c : c # "zhou")

\* index of the first position >= i of s that holds no whitespace (\s* is greedy)
SkipSpaces(s, i) ==
    Least({j \in i .. Len(s) : s[j] \notin Spaces} \cup {IF i > Len(s) THEN i ELSE Len(s) + 1})

\* number of digits at positions i, i+1, ... of s, at most max
DigitsAt(s, i, max) ==
    Greatest({n \in 0 .. max : \A k \in 0 .. n - 1 : i + k <= Len(s) /\ s[i + k] \in Digits})

(***************************************************************************)
(* re.match(r"(\d{1,2})\s*[-~–]\s*(\d{1,2})", token), anchored at the *)
(* start of the token only.  TryRange(token, n1) is the attempt in which   *)
(* the first group takes n1 digits; the regex engine tries the longest     *)
(* first group first and backtracks to the shorter one.  The result is     *)
(* <<start_week, end_week>> or None.                                       *)
(***************************************************************************)
\* the second group, at q, of n2 digits
SecondGroup(token, n1, q, n2) ==
    IF n2 >= 1
    THEN <<ToInt(SubSeq(token, 1, n1)), ToInt(SubSeq(token, q, q + n2 - 1))>>
    ELSE None

\* the separator at p, between optional whitespace
Separator(token, n1, p) ==
    IF p <= Len(token) /\ token[p] \in Dashes
    THEN SecondGroup(token, n1, SkipSpaces(token, p + 1),
                     DigitsAt(token, SkipSpaces(token, p + 1), 2))
    ELSE None

TryRange(token, n1) ==
    IF DigitsAt(token, 1, n1) = n1
    THEN Separator(token, n1, SkipSpaces(token, n1 + 1))
    ELSE None

FirstMatch(longest, shorter) == IF longest # None THEN longest ELSE shorter

RangeMatch(token) == FirstMatch(TryRange(token, 2), TryRange(token, 1))

\* re.findall(r"\d+", token) as the set of the integers of the maximal digit runs
DigitRuns(s) ==
    {ToInt(SubSeq(s, a, a + DigitsAt(s, a, Len(s)) - 1)) :
        a \in {i \in 1 .. Len(s) : s[i] \in Digits /\ (i = 1 \/ s[i - 1] \notin Digits)}}

\* variant for C10: the range runs from the first number to the second only
MatchedWeeks_Ascending(token, range_match) ==
    IF range_match # None
    THEN range_match[1] .. range_match[2]
    ELSE DigitRuns(token)

\* lines 61-69: the weeks of a token, given the result of re.match
MatchedWeeks(token, range_match) ==
    IF range_match # None
    THEN IF range_match[1] <= range_match[2]
         THEN range_match[1] .. range_match[2]
         ELSE range_match[2] .. range_match[1]
    ELSE DigitRuns(token)

\* lines 57-60: an empty token is skipped; the week suffix is removed
StrippedWeeks(stripped) ==
    IF stripped = <<>> THEN {}
    ELSE MatchedWeeks(RemoveZhou(stripped), RangeMatch(RemoveZhou(stripped)))

\* one iteration of the token loop of parse_week_spec: the weeks a token adds
TokenWeeks(raw) == StrippedWeeks(Strip(raw))

AllTokenWeeks(tokens) == UNION {TokenWeeks(tokens[i]) : i \in 1 .. Len(tokens)}

parse_week_spec(spec) == AllTokenWeeks(Split(spec))

(***************************************************************************)
(* Text primitives used by extract_time_ranges.  A line is a sequence of   *)
(* characters; "fwcolon" = U+FF1A, and the CJK characters are named        *)
(* "ben" "zhou" "an" "pai" (the section marker), "wu" "liu" "ri".          *)
(***************************************************************************)
\* needle in hay
Contains(hay, needle) ==
    \E i \in 1 .. Len(hay) - Len(needle) + 1 :
        SubSeq(hay, i, i + Len(needle) - 1) = needle

\* line.startswith(c) for a one-character c
StartsWith(s, c) == s # <<>> /\ s[1] = c

\* line.strip().replace("：", ":")
ReplaceColons(s) == [i \in 1 .. Len(s) |-> IF s[i] = "fwcolon" THEN ":" ELSE s[i]]

NormalizeLine(raw) == ReplaceColons(Strip(raw))

\* s.strip("|")
StripPipes(s) == StripChars(s, {"|"})

\* s.split("|")
SplitPipes(s) == Pieces(s, {i \in 1 .. Len(s) : s[i] = "|"})

\* [cell.strip() for cell in line.strip("|").split("|")]
StripAll(parts) == [i \in 1 .. Len(parts) |-> Strip(parts[i])]

Cells(s) == StripAll(SplitPipes(StripPipes(s)))

\* cell.strip("- ") == ""
DashOnly(cell) == \A i \in 1 .. Len(cell) : cell[i] \in {"-", " "}

\* \d{1,2}:\d{2} at position i of s: the length matched (5, 4) or 0
ClockLen(s, i) ==
    IF /\ DigitsAt(s, i, 2) = 2
       /\ i + 2 <= Len(s) /\ s[i + 2] = ":"
       /\ DigitsAt(s, i + 3, 2) = 2
    THEN 5
    ELSE IF /\ DigitsAt(s, i, 1) = 1
            /\ i + 1 <= Len(s) /\ s[i + 1] = ":"
            /\ DigitsAt(s, i + 2, 2) = 2
         THEN 4
         ELSE 0

\* TIME_RANGE_RE matched at position i: <<group(1), group(2)>> or None
SecondClock(s, i, c1, q, c2) ==
    IF c2 > 0
    THEN <<SubSeq(s, i, i + c1 - 1), SubSeq(s, q, q + c2 - 1)>>
    ELSE None

ClockSeparator(s, i, c1, p) ==
    IF p <= Len(s) /\ s[p] \in Dashes
    THEN SecondClock(s, i, c1, SkipSpaces(s, p + 1), ClockLen(s, SkipSpaces(s, p + 1)))
    ELSE None

FirstClock(s, i, c1) ==
    IF c1 > 0 THEN ClockSeparator(s, i, c1, SkipSpaces(s, i + c1)) ELSE None

TimeRangeAt(s, i) == FirstClock(s, i, ClockLen(s, i))

\* TIME_RANGE_RE.search(s): the leftmost match, or None
Leftmost(s, starts) == IF starts = {} THEN None ELSE TimeRangeAt(s, Least(starts))

TIME_RANGE_RE(s) == Leftmost(s, {i \in 1 .. Len(s) : TimeRangeAt(s, i) # None})

\* the section marker phrase
Marker == <<"ben", "zhou", "an", "pai">>

\* DAY_CONFIG: the weekday labels in dictionary order, and their ordinals
Fri == <<"zhou", "wu">>
Sat == <<"zhou", "liu">>
Sun == <<"zhou", "ri">>
DayOrder == <<Fri, Sat, Sun>>
Days == {Fri, Sat, Sun}
DAY_CONFIG == (Fri :> 4) @@ (Sat :> 5) @@ (Sun :> 6)

\* for day in DAY_CONFIG: if day in line: matched_day = day; break
MatchedDay(s) ==
    IF Contains(s, Fri) THEN Fri
    ELSE IF Contains(s, Sat) THEN Sat
    ELSE IF Contains(s, Sun) THEN Sun
    ELSE None

(***************************************************************************)
(* The input lines the model draws a document from.  They are raw lines    *)
(* of the fetched text, before line.strip() and the colon normalisation.   *)
(***************************************************************************)
Star(day) == <<"*", " ">> \o day
Row(spec, times) == <<"|", " ">> \o spec \o <<" ", "|", " ">> \o times \o <<" ", "|">>

T1900_2100 == <<"1", "9", ":", "0", "0", "-", "2", "1", ":", "0", "0">>
T2000_2200 == <<"2", "0", "fwcolon", "0", "0", " ", "endash", " ", "2", "2", "fwcolon", "0", "0">>
T2300_0100 == <<"2", "3", ":", "0", "0", "~", "0", "1", ":", "0", "0">>
T1000_1200 == <<"1", "0", ":", "0", "0", "~", "1", "2", ":", "0", "0">>
T0800_1000 == <<"0", "8", ":", "0", "0", "-", "1", "0", ":", "0", "0">>
T0900_1100 == <<"0", "9", ":", "0", "0", "-", "1", "1", ":", "0", "0">>
T900_900   == <<"9", ":", "0", "0", "-", "9", ":", "0", "0">>
T2570_9999 == <<"2", "5", ":", "7", "0", "-", "9", "9", ":", "9", "9">>

MarkerLine == <<"#", " ">> \o Marker
BlankLine == <<" ">>
TextLine == <<"x">>
OtherBullet == <<"*", " ", "x">>

BareBullets == {Star(Fri), Star(Sat), Star(Sun)}

\* bullets with an inline range; the second one for Friday is indented and
\* written with full-width colons and an en-dash
FriInline == Star(Fri) \o <<" ">> \o T1900_2100
FriInlineWide == <<" ">> \o Star(Fri) \o <<" ">> \o T2000_2200
SatInline == Star(Sat) \o <<" ">> \o T2300_0100
SunInline == Star(Sun) \o <<" ">> \o T1000_1200

InlineFor(day) ==
    IF day = Fri THEN {FriInline, FriInlineWide}
    ELSE IF day = Sat THEN {SatInline}
    ELSE {SunInline}

InlineBullets == UNION {InlineFor(day) : day \in Days}

\* rows that are buffered: a week specification and a time range
W_1_4 == <<"1", "-", "4">>
W_5_8 == <<"5", "-", "8">>
W_8_5 == <<"8", " ", "~", " ", "5", "zhou", "fwcomma", "1", "2">>
W_x   == <<"x">>

Row_1_4 == Row(W_1_4, T0800_1000)
Row_5_8 == Row(W_5_8, T0900_1100)
Row_8_5 == Row(W_8_5, T900_900)
Row_x   == Row(W_x, T2570_9999)
TimeRows == {Row_1_4, Row_5_8, Row_8_5, Row_x}

\* rows that are not buffered: a separator row, a row without a time range, a
\* row of one cell
HeaderRow == Row(<<"-", "-", "-">>, <<"-", "-", "-">>)
NoTimeRow == Row(<<"5">>, <<"x">>)
OneCellRow == <<"|", " ">> \o T0900_1100 \o <<" ", "|">>
SkippedRows == {HeaderRow, NoTimeRow, OneCellRow}

Lines ==
    {MarkerLine, BlankLine, TextLine, OtherBullet}
        \cup BareBullets \cup InlineBullets \cup TimeRows \cup SkippedRows

\* the values of current_week: main passes the ISO week of today
WeekChoices == {3, 5, 9}

\* the longest table the model buffers
MaxRows == 2

(***************************************************************************)
(* extract_time_ranges: the nested helpers and the body of the line loop.  *)
(* The function's locals are gathered in a record st with the fields       *)
(* in_week_section, pending_day, pending_rows, time_map and brk (the loop  *)
(* was left by break).  time_map is a function whose domain is the set of  *)
(* keys of the dictionary.  A buffered row is <<cells[0], start, end>>.    *)
(*                                                                         *)
(* What the loop body computes from the line alone is computed once per    *)
(* input line, in Lexed, and what parse_week_spec returns for the first    *)
(* cell of a row in ParsedWeeks.                                           *)
(***************************************************************************)
\* the expressions of lines 47, 93, 99-105, 113-124 that read only the line
RowMatch(cells) == IF Len(cells) >= 2 THEN TIME_RANGE_RE(cells[2]) ELSE None

LexNormalized(normalized) ==
    [line |-> normalized,
     marker |-> Contains(normalized, Marker),
     pipe |-> StartsWith(normalized, "|"),
     star |-> StartsWith(normalized, "*"),
     matched_day |-> MatchedDay(normalized),
     time_match |-> TIME_RANGE_RE(normalized),
     cells |-> Cells(normalized),
     row_match |-> RowMatch(Cells(normalized))]

Lex(raw) == LexNormalized(NormalizeLine(raw))

Lexed == [raw \in Lines |-> Lex(raw)]

\* parse_week_spec on the first cell of each input row
RowSpecs == {Cells(NormalizeLine(raw))[1] : raw \in TimeRows \cup SkippedRows}

ParsedWeeks == [spec \in RowSpecs |-> parse_week_spec(spec)]

\* current_week is None
NoWeek == -1

\* len(time_map)
len(map) == Cardinality(DOMAIN map)

\* variant for C19: time_map.setdefault(day, value)
SetItem_Default(map, day, value) ==
    [d \in DOMAIN map \cup {day} |-> IF d \in DOMAIN map THEN map[d] ELSE value]

\* time_map[day] = value
SetItem(map, day, value) ==
    [d \in DOMAIN map \cup {day} |-> IF d = day THEN value ELSE map[d]]

\* the first loop of choose_table_time: the indices of the rows whose weeks
\* contain current_week
InWeeks(weeks, week) == weeks # {} /\ week \in weeks

\* variant for C5: no row is found for the week
WeekRows_None(rows, week) == {}

WeekRows(rows, week) ==
    {i \in 1 .. Len(rows) : InWeeks(ParsedWeeks[rows[i][1]], week)}

\* variant for C6: the second loop passes the rows whose weeks are unknown
FullRows_Weeked(rows) ==
    {i \in 1 .. Len(rows) :
        rows[i][2] # <<>> /\ rows[i][3] # <<>> /\ ParsedWeeks[rows[i][1]] # {}}

\* the second loop of choose_table_time: the indices of the rows with a start
\* and an end
FullRows(rows) ==
    {i \in 1 .. Len(rows) : rows[i][2] # <<>> /\ rows[i][3] # <<>>}

\* return start, end
RowTimes(row) == <<row[2], row[3]>>

\* variant for C4: with a current week the second loop is not run
FirstOf_WeekOnly(rows, week_rows, full_rows, week) ==
    IF week # NoWeek
    THEN IF week_rows # {} THEN RowTimes(rows[Least(week_rows)]) ELSE None
    ELSE IF full_rows # {}
         THEN RowTimes(rows[Least(full_rows)])
         ELSE None

FirstOf(rows, week_rows, full_rows, week) ==
    IF week # NoWeek /\ week_rows # {}
    THEN RowTimes(rows[Least(week_rows)])
    ELSE IF full_rows # {}
         THEN RowTimes(rows[Least(full_rows)])
         ELSE None

choose_table_time(rows, week) ==
    FirstOf(rows, WeekRows(rows, week), FullRows(rows), week)

\* lines 85-90, given the value of chosen
Finalized(st, chosen) ==
    [st EXCEPT
        !.time_map = IF st.pending_day # None /\ st.pending_rows # <<>> /\ chosen # None
                     THEN SetItem(@, st.pending_day, chosen)
                     ELSE @,
        !.pending_day = None,
        !.pending_rows = <<>>]

finalize_table(st, week) == Finalized(st, choose_table_time(st.pending_rows, week))

\* variant for C16: a row that is not buffered closes the table
TableRow_Closing(st, lx) ==
    IF /\ Len(lx.cells) >= 2
       /\ ~(DashOnly(lx.cells[1]) /\ DashOnly(lx.cells[2]))
       /\ lx.row_match # None
    THEN [st EXCEPT !.pending_rows =
             Append(@, <<lx.cells[1], lx.row_match[1], lx.row_match[2]>>)]
    ELSE [st EXCEPT !.pending_day = None, !.pending_rows = <<>>]

\* lines 102-108: a line starting with "|" while a day is pending
TableRow(st, lx) ==
    IF /\ Len(lx.cells) >= 2
       /\ ~(DashOnly(lx.cells[1]) /\ DashOnly(lx.cells[2]))
       /\ lx.row_match # None
    THEN [st EXCEPT !.pending_rows =
             Append(@, <<lx.cells[1], lx.row_match[1], lx.row_match[2]>>)]
    ELSE st

\* lines 124-134: a bullet line that names a weekday
\* lines 133-134
BreakIfComplete(st) == [st EXCEPT !.brk = (len(st.time_map) = Len(DayOrder))]

\* variant for C7: an inline range leaves the day pending
Bullet_KeepPending(st, lx) ==
    BreakIfComplete(
        IF lx.time_match # None
        THEN [st EXCEPT !.time_map = SetItem(@, lx.matched_day, lx.time_match),
                        !.pending_day = lx.matched_day,
                        !.pending_rows = <<>>]
        ELSE [st EXCEPT !.pending_day = lx.matched_day,
                        !.pending_rows = <<>>])

\* variant for C18: a bare bullet drops the entry its day already has
Bullet_Reopening(st, lx) ==
    BreakIfComplete(
        IF lx.time_match # None
        THEN [st EXCEPT !.time_map = SetItem(@, lx.matched_day, lx.time_match),
                        !.pending_day = None,
                        !.pending_rows = <<>>]
        ELSE [st EXCEPT !.time_map = [d \in DOMAIN @ \ {lx.matched_day} |-> @[d]],
                        !.pending_day = lx.matched_day,
                        !.pending_rows = <<>>])

Bullet(st, lx) ==
    BreakIfComplete(
        IF lx.time_match # None
        THEN [st EXCEPT !.time_map = SetItem(@, lx.matched_day, lx.time_match),
                        !.pending_day = None,
                        !.pending_rows = <<>>]
        ELSE [st EXCEPT !.pending_day = lx.matched_day,
                        !.pending_rows = <<>>])

\* variant for C9: a line after a table does not end it
EndTable_Never(st, lx, week) == st

\* variant for C15: a blank line ends a table with rows too
EndTable_OnBlank(st, lx, week) ==
    IF st.pending_day # None /\ st.pending_rows # <<>> /\ ~lx.pipe
    THEN finalize_table(st, week)
    ELSE st

\* lines 99-100: a non-blank line not starting with "|" ends a table with rows
EndTable(st, lx, week) ==
    IF /\ st.pending_day # None /\ st.pending_rows # <<>>
       /\ lx.line # <<>> /\ ~lx.pipe
    THEN finalize_table(st, week)
    ELSE st

\* lines 102-134, after the table was ended
Classify(s1, lx) ==
    IF s1.pending_day # None /\ lx.pipe
    THEN TableRow(s1, lx)
    ELSE IF s1.pending_day # None /\ lx.line = <<>>
    THEN s1
    ELSE IF lx.line = <<>> \/ ~lx.star
    THEN s1
    ELSE IF lx.matched_day = None
    THEN s1
    ELSE Bullet(s1, lx)

\* variant for C8: the lines before the marker are classified too
LoopBody_AnySection(st, lx, week) ==
    IF ~st.in_week_section /\ lx.marker
    THEN [st EXCEPT !.in_week_section = TRUE]
    ELSE Classify(EndTable(st, lx, week), lx)

\* lines 93-134: one iteration of the loop over normalized_lines
LoopBody(st, lx, week) ==
    IF ~st.in_week_section /\ lx.marker
    THEN [st EXCEPT !.in_week_section = TRUE]
    ELSE IF ~st.in_week_section
    THEN st
    ELSE Classify(EndTable(st, lx, week), lx)

\* lines 136-139: after the loop
AfterLoop(st, week) ==
    IF st.pending_day # None /\ st.pending_rows # <<>>
    THEN finalize_table(st, week)
    ELSE st

(***************************************************************************)
(* fetch_content                                                           *)
(***************************************************************************)
PRIMARY_URL == "https://czq.rth1.xyz/time"
FALLBACK_URL == "https://r.jina.ai/https://czq.rth1.xyz/time"

attempts ==
    << [label |-> "primary", url |-> PRIMARY_URL],
       [label |-> "fallback", url |-> FALLBACK_URL] >>

\* a request answered
NoExc == [kind |-> "None", code |-> 0]
HTTPError(code) == [kind |-> "HTTPError", code |-> code]
OtherError == [kind |-> "Exception", code |-> 0]

\* what a request can raise
Failures == {HTTPError(403), HTTPError(404), HTTPError(500), OtherError}

(***************************************************************************)
(* main: the clock conversion and the events                               *)
(***************************************************************************)
\* map(int, clock_str.split(":")): <<hour, minute>> of a matched clock text
SplitAt(clock_str, colon) ==
    << ToInt(SubSeq(clock_str, 1, colon - 1)),
       ToInt(SubSeq(clock_str, colon + 1, Len(clock_str))) >>

ClockFields(clock_str) ==
    SplitAt(clock_str, CHOOSE i \in 1 .. Len(clock_str) : clock_str[i] = ":")

\* time(hour=hour, minute=minute) raises ValueError outside 0..23, 0..59
ValidClock(clock_str) ==
    ClockFields(clock_str)[1] \in 0 .. 23 /\ ClockFields(clock_str)[2] \in 0 .. 59

\* parse_clock as minutes since midnight
parse_clock(clock_str) == 60 * ClockFields(clock_str)[1] + ClockFields(clock_str)[2]

\* variant for C17: the target weekday is looked for after the start date
next_weekday_After(weekday, target_weekday) == ((target_weekday - weekday - 1) % 7) + 1

\* next_weekday as the number of days after today
next_weekday(weekday, target_weekday) == (target_weekday - weekday) % 7

MinutesPerDay == 1440

\* lines 215-230: the event of one day, in minutes since today's midnight
\* combine_datetime as minutes since today's midnight
combine_datetime(base_date, clock) == base_date * MinutesPerDay + clock

\* variant for C11: the end is left on the event date
EventOf_SameDay(day, start_dt, end_dt) ==
    [day |-> day, start |-> start_dt, end |-> end_dt]

\* lines 221-229
EventOf(day, start_dt, end_dt) ==
    [day |-> day,
     start |-> start_dt,
     end |-> IF end_dt <= start_dt THEN end_dt + MinutesPerDay ELSE end_dt]

\* lines 215-230: the event of one day
Event(wd, day, range) ==
    EventOf(day,
            combine_datetime(next_weekday(wd, DAY_CONFIG[day]), parse_clock(range[1])),
            combine_datetime(next_weekday(wd, DAY_CONFIG[day]), parse_clock(range[2])))

(***************************************************************************)
(* The state.                                                              *)
(*   pc             where the run is: "fetch", "fetched", "scan",          *)
(*                  "extracted", and the ends "done", "fetch_error"        *)
(*                  (RuntimeError), "exit" (SystemExit), "value_error"     *)
(*   attempt, last_exc, source_label, requests                             *)
(*                  fetch_content's loop index and locals; requests is the *)
(*                  sequence of the requests made so far, each with the    *)
(*                  label of its URL and what it raised                    *)
(*   current_week, in_week_section, pending_day, pending_rows, time_map    *)
(*                  extract_time_ranges' parameter and locals              *)
(*   line           the line of the text the loop processed last, NoLine   *)
(*                  before the first one and after the last one            *)
(*   today          today's weekday ordinal, once main used it             *)
(*   output         the events written to the output file, <<>> while no   *)
(*                  file is written                                        *)
(*   text, pos      for the runs on a given document: its lines, and the   *)
(*                  number of them the loop has read                       *)
(*   wk             for the runs of parse_week_spec or next_weekday alone: *)
(*                  the arguments of the call and what it returned         *)
(***************************************************************************)
VARIABLES pc, attempt, last_exc, source_label, requests,
          current_week, in_week_section, pending_day, pending_rows, time_map,
          line, today, output, text, pos, wk

fetchvars == <<attempt, last_exc, source_label, requests>>
scanvars == <<in_week_section, pending_day, pending_rows, time_map, line>>
vars == <<pc, attempt, last_exc, source_label, requests,
          current_week, in_week_section, pending_day, pending_rows, time_map,
          line, today, output, text, pos, wk>>

NoLine == <<"(none)">>
NoToday == -1
NoWk == [kind |-> "none"]

\* the locals of extract_time_ranges at its start (lines 46-50)
ScanInit ==
    /\ in_week_section = FALSE
    /\ pending_day = None
    /\ pending_rows = <<>>
    /\ time_map = <<>>
    /\ line = NoLine

\* fetch_content's locals at its start (lines 28-29)
FetchInit ==
    /\ attempt = 1
    /\ last_exc = NoExc
    /\ source_label = "None"
    /\ requests = <<>>

\* extract_time_ranges called on any text, with or without a current week
Init ==
    /\ pc = "scan"
    /\ current_week \in WeekChoices \cup {NoWeek}
    /\ FetchInit
    /\ ScanInit
    /\ today = NoToday
    /\ output = <<>>
    /\ text = <<>>
    /\ pos = 0
    /\ wk = NoWk

\* main called
MainInit ==
    /\ pc = "fetch"
    /\ current_week = NoWeek
    /\ FetchInit
    /\ ScanInit
    /\ today = NoToday
    /\ output = <<>>
    /\ text = <<>>
    /\ pos = 0
    /\ wk = NoWk

(***************************************************************************)
(* fetch_content, lines 30-42: one iteration of the loop over attempts.    *)
(* A request answers or raises.  After an HTTPError the code continues on  *)
(* a 403 of the primary URL and otherwise leaves the except block; after   *)
(* any other exception it leaves the except block.  In each case the for   *)
(* loop goes on with the next attempt, and raises RuntimeError when there  *)
(* is none.                                                                *)
(***************************************************************************)
\* variant for C2: a failed attempt is taken for an answer
AfterFailure_Answered(i, exc) == "fetched"

\* variant for C13: after a failed attempt the loop makes another one
AfterFailure_Again(i, exc) == "fetch"

\* the loop after a failed attempt i: the next attempt, or line 42
AfterFailure(i, exc) ==
    IF exc.kind = "HTTPError" /\ exc.code = 403 /\ attempts[i].url # FALLBACK_URL
    THEN IF i < Len(attempts) THEN "fetch" ELSE "fetch_error"
    ELSE IF i < Len(attempts) THEN "fetch" ELSE "fetch_error"

FetchOk ==
    /\ pc = "fetch"
    /\ requests' = Append(requests, [label |-> attempts[attempt].label, exc |-> NoExc])
    /\ source_label' = attempts[attempt].label
    /\ pc' = "fetched"
    /\ UNCHANGED <<attempt, last_exc, current_week, scanvars, today, output, text, pos, wk>>

FetchFail ==
    /\ pc = "fetch"
    /\ \E exc \in Failures :
        /\ requests' = Append(requests, [label |-> attempts[attempt].label, exc |-> exc])
        /\ last_exc' = exc
        /\ pc' = AfterFailure(attempt, exc)
        /\ attempt' = IF pc' = "fetch" THEN attempt + 1 ELSE attempt
    /\ UNCHANGED <<source_label, current_week, scanvars, today, output, text, pos, wk>>

(***************************************************************************)
(* main, lines 204-207: the ISO week of now, and the call of               *)
(* extract_time_ranges on the fetched content.                             *)
(***************************************************************************)
MainExtract ==
    /\ pc = "fetched"
    /\ current_week' \in WeekChoices
    /\ pc' = "scan"
    /\ UNCHANGED <<fetchvars, scanvars, today, output, text, pos, wk>>

(***************************************************************************)
(* extract_time_ranges: one iteration of the loop on a line, and the end   *)
(* of the text.  A break and the end of the text both run lines 136-139.   *)
(***************************************************************************)
Locals ==
    [in_week_section |-> in_week_section, pending_day |-> pending_day,
     pending_rows |-> pending_rows, time_map |-> time_map, brk |-> FALSE]

\* the loop goes on, or was left by break
LeaveLoop(st, week) == IF st.brk THEN AfterLoop(st, week) ELSE st

\* the locals after the iteration
Assign(st) ==
    /\ Len(st.pending_rows) <= MaxRows
    /\ in_week_section' = st.in_week_section
    /\ pending_day' = st.pending_day
    /\ pending_rows' = st.pending_rows
    /\ time_map' = st.time_map
    /\ pc' = IF st.brk THEN "extracted" ELSE "scan"

ScanLine(raw) ==
    /\ pc = "scan"
    /\ line' = raw
    /\ Assign(LeaveLoop(LoopBody(Locals, Lexed[raw], current_week), current_week))
    /\ UNCHANGED <<fetchvars, current_week, today, output, wk>>

\* the next line of a text that is not given
Scan ==
    /\ \E raw \in Lines : ScanLine(raw)
    /\ UNCHANGED <<text, pos>>

\* the next line of the given text
ScanText ==
    /\ pos < Len(text)
    /\ ScanLine(text[pos + 1])
    /\ pos' = pos + 1
    /\ UNCHANGED text

\* the loop is exhausted
EndOfText ==
    /\ pc = "scan"
    /\ pos = Len(text)
    /\ line' = NoLine
    /\ Assign([AfterLoop(Locals, current_week) EXCEPT !.brk = TRUE])
    /\ UNCHANGED <<fetchvars, current_week, today, output, text, pos, wk>>

(***************************************************************************)
(* main, lines 208-234: the completeness check, the events, the file.      *)
(***************************************************************************)
MainBuild ==
    /\ pc = "extracted"
    /\ IF len(time_map) < Len(DayOrder)
       THEN pc' = "exit" /\ UNCHANGED <<today, output>>
       ELSE \E wd \in 0 .. 6 :
              /\ today' = wd
              /\ IF \A d \in Days : ValidClock(time_map[d][1]) /\ ValidClock(time_map[d][2])
                 THEN /\ output' = [i \in 1 .. Len(DayOrder) |->
                                       Event(wd, DayOrder[i], time_map[DayOrder[i]])]
                      /\ pc' = "done"
                 ELSE /\ output' = output
                      /\ pc' = "value_error"
    /\ UNCHANGED <<fetchvars, current_week, scanvars, text, pos, wk>>

\* the pages the runs of main fetch are made of these lines
MainLines ==
    {MarkerLine, TextLine, Star(Sun), Row_5_8, Row_8_5, Row_x} \cup InlineBullets

ScanFetched ==
    /\ \E raw \in MainLines : ScanLine(raw)
    /\ UNCHANGED <<text, pos>>

\* extract_time_ranges on its own
Next == Scan \/ EndOfText

Spec == Init /\ [][Next]_vars

\* a run of main
MainNext ==
    FetchOk \/ FetchFail \/ MainExtract \/ ScanFetched \/ EndOfText \/ MainBuild

SpecMain == MainInit /\ [][MainNext]_vars

\* A run of main in which every request ends: urlopen is called with
\* timeout=30 (line 33), so a request answers or raises, and the loop of
\* fetch_content takes its next step.
SpecFetch == SpecMain /\ WF_vars(FetchOk \/ FetchFail)

(***************************************************************************)
(* extract_time_ranges on a given document: the marker line, then one      *)
(* block per weekday, in any order.  A block is a bullet with an inline    *)
(* range, or a bare bullet followed by 1 .. MaxRows rows with a week       *)
(* specification and a time range.                                         *)
(***************************************************************************)
DocRows == {Row_5_8, Row_x}

Tables == UNION {[1 .. n -> DocRows] : n \in 1 .. MaxRows}

Blocks(day) ==
    {<<bullet>> : bullet \in InlineFor(day)} \cup {<<Star(day)>> \o t : t \in Tables}

Orders ==
    {o \in [DOMAIN DayOrder -> Days] : \A i, j \in DOMAIN DayOrder : o[i] = o[j] => i = j}

DocsIn(o) ==
    {<<MarkerLine>> \o b1 \o b2 \o b3 :
        b1 \in Blocks(o[1]), b2 \in Blocks(o[2]), b3 \in Blocks(o[3])}

Docs == UNION {DocsIn(o) : o \in Orders}

DocInit ==
    /\ pc = "scan"
    /\ current_week \in WeekChoices \cup {NoWeek}
    /\ FetchInit
    /\ ScanInit
    /\ today = NoToday
    /\ output = <<>>
    /\ text \in Docs
    /\ pos = 0
    /\ wk = NoWk

DocNext == ScanText \/ EndOfText

SpecDoc == DocInit /\ [][DocNext]_vars

(***************************************************************************)
(* parse_week_spec on its own.  The specifications parsed are              *)
(*   - the two tokens "a-b" and "b-a" of two week numbers a, b in          *)
(*     1 .. MaxWeek, written with one of the separators and with or        *)
(*     without the week suffix;                                            *)
(*   - a specification of 2 .. MaxTokens tokens joined by one of the       *)
(*     commas, and each of its tokens alone.                               *)
(***************************************************************************)
MaxWeek == 53
MaxTokens == 3

DigitChar == <<"0", "1", "2", "3", "4", "5", "6", "7", "8", "9">>

\* the decimal digits of n
Decimal[n \in Nat] ==
    IF n < 10 THEN <<DigitChar[n + 1]>>
    ELSE Append(Decimal[n \div 10], DigitChar[(n % 10) + 1])

RangeSeps == {<<"-">>, <<"~">>, <<" ", "endash", " ">>}
Suffixes == {<<>>, <<"zhou">>}

RangeToken(a, sep, b, suffix) == Decimal[a] \o sep \o Decimal[b] \o suffix

WeekTokens ==
    { <<"3", "-", "5">>, <<"5", " ", "~", " ", "3">>, <<"7">>, <<"1", "2", "zhou">>,
      <<" ", "9", " ">>, <<"x">>, <<>> }

\* the tokens joined by a comma
Joined(tokens, comma) ==
    LET acc[n \in 1 .. Len(tokens)] ==
            IF n = 1 THEN tokens[1] ELSE acc[n - 1] \o <<comma>> \o tokens[n]
    IN  acc[Len(tokens)]

RangeInputs ==
    {[kind |-> "range", a |-> a, b |-> b,
      specs |-> <<RangeToken(a, sep, b, suffix), RangeToken(b, sep, a, suffix)>>,
      out |-> <<>>] :
        a \in 1 .. MaxWeek, b \in 1 .. MaxWeek, sep \in RangeSeps, suffix \in Suffixes}

TokenSeqs == UNION {[1 .. n -> WeekTokens] : n \in 2 .. MaxTokens}

MultiInputs ==
    {[kind |-> "multi", a |-> 0, b |-> 0,
      specs |-> <<Joined(tokens, comma)>> \o tokens,
      out |-> <<>>] :
        tokens \in TokenSeqs, comma \in Commas}

WeekInit ==
    /\ pc = "week"
    /\ current_week = NoWeek
    /\ FetchInit
    /\ ScanInit
    /\ today = NoToday
    /\ output = <<>>
    /\ text = <<>>
    /\ pos = 0
    /\ wk \in RangeInputs \cup MultiInputs

\* parse_week_spec called on each of the specifications
ParseWeekSpecs ==
    /\ pc = "week"
    /\ wk' = [wk EXCEPT !.out = [i \in DOMAIN wk.specs |-> parse_week_spec(wk.specs[i])]]
    /\ pc' = "parsed"
    /\ UNCHANGED <<fetchvars, current_week, scanvars, today, output, text, pos>>

WeekNext == ParseWeekSpecs

SpecWeek == WeekInit /\ [][WeekNext]_vars

(***************************************************************************)
(* The properties.  What a line is expected to yield is written out here,  *)
(* character by character, independently of the operators above.           *)
(***************************************************************************)
C0100 == <<"0", "1", ":", "0", "0">>
C0800 == <<"0", "8", ":", "0", "0">>
C0900 == <<"0", "9", ":", "0", "0">>
C1000 == <<"1", "0", ":", "0", "0">>
C1100 == <<"1", "1", ":", "0", "0">>
C1200 == <<"1", "2", ":", "0", "0">>
C1900 == <<"1", "9", ":", "0", "0">>
C2000 == <<"2", "0", ":", "0", "0">>
C2100 == <<"2", "1", ":", "0", "0">>
C2200 == <<"2", "2", ":", "0", "0">>
C2300 == <<"2", "3", ":", "0", "0">>
C2570 == <<"2", "5", ":", "7", "0">>
C9999 == <<"9", "9", ":", "9", "9">>
C900  == <<"9", ":", "0", "0">>

\* the (start, end) pair of each line that carries a time range
ExpectedRange ==
    (FriInline :> <<C1900, C2100>>) @@ (FriInlineWide :> <<C2000, C2200>>) @@
    (SatInline :> <<C2300, C0100>>) @@ (SunInline :> <<C1000, C1200>>) @@
    (Row_1_4 :> <<C0800, C1000>>) @@ (Row_5_8 :> <<C0900, C1100>>) @@
    (Row_8_5 :> <<C900, C900>>) @@ (Row_x :> <<C2570, C9999>>)

\* the WeekSpecification of the first cell of each buffered row
ExpectedWeeks ==
    (W_1_4 :> 1 .. 4) @@ (W_5_8 :> 5 .. 8) @@ (W_8_5 :> (5 .. 8) \cup {12}) @@ (W_x :> {})

\* the entry of a day in a mapping, None when the day is absent
Entry(map, day) == IF day \in DOMAIN map THEN map[day] ELSE None

\* the buffered rows whose WeekSpecification contains the week
RowsOfWeek(rows, week) == {i \in DOMAIN rows : week \in ExpectedWeeks[rows[i][1]]}

\* the lines that end a table: neither blank nor starting with "|"
TableEnders == Lines \ (TimeRows \cup SkippedRows \cup {BlankLine})

\* A step that finalizes the table of pending_day: a table with rows is open
\* and the step reads a line that ends it, or finds the text exhausted.  The
\* line read is not an inline bullet of the same day, which would commit its
\* own range over the one finalization committed.
FinalizesTable ==
    /\ pc = "scan"
    /\ pending_day # None
    /\ pending_rows # <<>>
    /\ line' \in (TableEnders \cup {NoLine}) \ InlineFor(pending_day)

\* C1: the fallback URL is requested only after the primary request failed
\* with HTTP 403; after any other failure of the primary request no further
\* request is made and fetch_content ends in its RuntimeError.
C1_FallbackOnlyAfter403 ==
    /\ \A i \in DOMAIN requests :
           requests[i].label = "fallback" => requests[1].exc = HTTPError(403)
    /\ (requests # <<>> /\ requests[1].exc \notin {NoExc, HTTPError(403)})
           => (pc = "fetch_error" /\ Len(requests) = 1)

\* C2: in a run of main the output is written only after a request was
\* answered and extract_time_ranges returned all three labels; a run whose
\* extraction returned fewer than three labels ends in SystemExit, and
\* nothing is written then.
C2_NoPartialCalendar ==
    /\ output # <<>> =>
           /\ pc = "done"
           /\ source_label \in {"primary", "fallback"}
           /\ requests[Len(requests)].exc = NoExc
           /\ DOMAIN time_map = Days
           /\ Len(output) = Len(DayOrder)
    /\ pc \in {"done", "value_error"} => DOMAIN time_map = Days
    /\ pc = "exit" => (len(time_map) < Len(DayOrder) /\ output = <<>>)
    /\ pc \in {"fetched", "scan", "extracted"} => source_label \in {"primary", "fallback"}

C2_Witness ==
    /\ pc = "done"
    /\ Len(output) = Len(DayOrder)
    /\ source_label = "fallback"

\* C3: scanning stops as soon as all three labels are committed, whichever
\* way the third one was committed: the loop never goes on with three
\* labels in the mapping.
C3_StopsAtThree == pc = "scan" => len(time_map) < Len(DayOrder)

\* C4 as stated: with a current week that no buffered row contains,
\* finalization commits nothing and the entry of the day stays as it was.
C4_NoFallbackWithWeek ==
    [][(/\ FinalizesTable
        /\ current_week # NoWeek
        /\ RowsOfWeek(pending_rows, current_week) = {})
          => Entry(time_map', pending_day) = Entry(time_map, pending_day)]_vars

\* C4: the fallback to the first buffered row is also used with a current
\* week, when no buffered row contains it: finalization then commits the
\* range of the first buffered row.
C4_FallbackWithUnmatchedWeek ==
    [][(/\ FinalizesTable
        /\ current_week # NoWeek
        /\ RowsOfWeek(pending_rows, current_week) = {})
          => Entry(time_map', pending_day) = RowTimes(pending_rows[1])]_vars

C4_Witness ==
    /\ current_week = 9
    /\ line = TextLine
    /\ pending_day = None
    /\ Entry(time_map, Sat) = ExpectedRange[Row_1_4]

\* C5: with a current week that some buffered row contains, finalization
\* commits the range of the first such row, whatever rows precede it.
C5_FirstRowOfWeek ==
    [][(/\ FinalizesTable
        /\ current_week # NoWeek
        /\ RowsOfWeek(pending_rows, current_week) # {})
          => Entry(time_map', pending_day) =
                 RowTimes(pending_rows[Least(RowsOfWeek(pending_rows, current_week))])]_vars

C5_Witness ==
    /\ current_week = 5
    /\ pc = "extracted"
    /\ line = NoLine
    /\ Entry(time_map, Sat) = ExpectedRange[Row_5_8]
    /\ Entry(time_map, Sun) = ExpectedRange[Row_8_5]

\* C6: without a current week, finalization of a table with rows commits the
\* range of the first buffered row, whatever its week specification.
C6_FirstRowWithoutWeek ==
    [][(FinalizesTable /\ current_week = NoWeek)
          => Entry(time_map', pending_day) = RowTimes(pending_rows[1])]_vars

C6_Witness ==
    /\ current_week = NoWeek
    /\ line = TextLine
    /\ pending_day = None
    /\ Entry(time_map, Sun) = ExpectedRange[Row_x]

\* C7: a bullet with an inline range commits that range for its label and
\* clears the pending table; table rows read while no table is pending are
\* not buffered and change no entry.
C7_InlineClearsPending ==
    [][(pc = "scan" /\ in_week_section) =>
          /\ \A day \in Days :
                 line' \in InlineFor(day) =>
                     /\ Entry(time_map', day) = ExpectedRange[line']
                     /\ pending_day' = None
                     /\ pending_rows' = <<>>
          /\ (pending_day = None /\ line' \in TimeRows \cup SkippedRows) =>
                 UNCHANGED <<time_map, pending_day, pending_rows>>]_vars

C7_Witness ==
    /\ line \in TimeRows
    /\ pending_day = None
    /\ pending_rows = <<>>
    /\ time_map = (Fri :> ExpectedRange[FriInlineWide])

\* C8: as long as no marker line was read nothing is committed and no table
\* is pending, so a text without a marker line yields the empty mapping; and
\* only a marker line opens the section.
C8_NothingBeforeMarker ==
    /\ [](~in_week_section =>
              (time_map = <<>> /\ pending_day = None /\ pending_rows = <<>>))
    /\ [][(~in_week_section /\ line' # MarkerLine) => ~in_week_section']_vars

C8_Witness ==
    /\ ~in_week_section
    /\ line \in InlineBullets
    /\ pc = "scan"
    /\ time_map = <<>>

\* the lines of the block of a day in a document, and the ranges they carry
BulletLines == BareBullets \cup InlineBullets

BulletOf(doc, day) == CHOOSE i \in DOMAIN doc : doc[i] \in InlineFor(day) \cup {Star(day)}

BlockOf(doc, day) ==
    {j \in DOMAIN doc :
        /\ j >= BulletOf(doc, day)
        /\ \A k \in BulletOf(doc, day) + 1 .. j : doc[k] \notin BulletLines}

BlockRanges(doc, day) ==
    {ExpectedRange[doc[j]] : j \in {k \in BlockOf(doc, day) : doc[k] \in DOMAIN ExpectedRange}}

\* C9: on a document made of the marker line and one block per label, the
\* returned mapping has all three labels; an inline block's label has its
\* inline range and a table block's label has the range of a row of its table.
C9_OneBlockPerLabel ==
    pc = "extracted" =>
        /\ DOMAIN time_map = Days
        /\ \A day \in Days : time_map[day] \in BlockRanges(text, day)

C9_Witness ==
    /\ pc = "extracted"
    /\ current_week = 5
    /\ text = <<MarkerLine, FriInline, Star(Sat), Row_x, Row_5_8, SunInline>>
    /\ time_map = (Fri :> <<C1900, C2100>>) @@ (Sat :> <<C0900, C1100>>)
                      @@ (Sun :> <<C1000, C1200>>)

\* C10: for week numbers a, b the tokens "a-b" and "b-a" parse to the same
\* set, the integers from the smaller to the larger; a specification of
\* several tokens parses to the union of the sets of its tokens.  The week
\* numbers are those of at most two digits, which is what the pattern of
\* line 60 takes for a bound of a range.
C10_SymmetricRanges ==
    pc = "parsed" =>
        /\ wk.kind = "range" =>
               /\ wk.out[1] = wk.out[2]
               /\ wk.out[1] = {n \in 1 .. MaxWeek : \/ wk.a <= n /\ n <= wk.b
                                                    \/ wk.b <= n /\ n <= wk.a}
        /\ wk.kind = "multi" =>
               wk.out[1] = UNION {wk.out[i] : i \in 2 .. Len(wk.out)}

C10_Witness ==
    /\ pc = "parsed"
    /\ wk.kind = "range"
    /\ wk.a = 5
    /\ wk.b = 3
    /\ wk.specs[1] = <<"5", " ", "endash", " ", "3", "zhou">>
    /\ wk.out = <<{3, 4, 5}, {3, 4, 5}>>

\* the minutes since midnight of each clock text that is a time of day
ExpectedMinutes ==
    (C0100 :> 60) @@ (C0800 :> 480) @@ (C0900 :> 540) @@ (C900 :> 540) @@
    (C1000 :> 600) @@ (C1100 :> 660) @@ (C1200 :> 720) @@ (C1900 :> 1140) @@
    (C2000 :> 1200) @@ (C2100 :> 1260) @@ (C2200 :> 1320) @@ (C2300 :> 1380)

\* the day and the minute of the day of a timestamp
DayOf(dt) == dt \div MinutesPerDay
ClockOf(dt) == dt % MinutesPerDay

\* an event of a committed range (start_clock, end_clock), in minutes: it
\* starts and ends at the clocks of the range, ends on the day it starts when
\* the end clock is later than the start clock and on the next day otherwise
EventAsClaimed(ev, start_clock, end_clock) ==
    /\ ClockOf(ev.start) = start_clock
    /\ ClockOf(ev.end) = end_clock
    /\ DayOf(ev.end) = DayOf(ev.start) + (IF end_clock > start_clock THEN 0 ELSE 1)
    /\ ev.start < ev.end
    /\ ev.end <= ev.start + MinutesPerDay

\* C11: the end of every event built is on the event date when the end clock
\* is after the start clock and on the following day when it is not (the
\* equal clocks included), so the end is after the start and at most 24
\* hours after it.
C11_OvernightEnd ==
    pc = "done" =>
        \A i \in DOMAIN output :
            EventAsClaimed(output[i],
                           ExpectedMinutes[time_map[output[i].day][1]],
                           ExpectedMinutes[time_map[output[i].day][2]])

C11_Witness ==
    /\ pc = "done"
    /\ time_map[Sat] = <<C2300, C0100>>
    /\ time_map[Sun] = <<C900, C900>>
    /\ today = 5
    /\ output[2].start = 1380
    /\ output[2].end = MinutesPerDay + 60
    /\ output[3].end = output[3].start + MinutesPerDay

\* C12: every start and end committed to the mapping is a time of day, with
\* its hour in 0 .. 23 and its minute in 0 .. 59.
C12_ValidTimesOfDay ==
    \A day \in DOMAIN time_map :
        ValidClock(time_map[day][1]) /\ ValidClock(time_map[day][2])

\* the requests made so far all failed
AllFailed(reqs) == \A i \in DOMAIN reqs : reqs[i].exc # NoExc

\* C13: fetch_content ends after at most two requests, the primary URL first
\* and the fallback URL at most once after it; when a request answers, the
\* label returned is that of this request, the last one made; when it ends
\* in its RuntimeError every request made has failed and the cause reported
\* is that of the last one.
C13_AtMostTwoRequests ==
    /\ [](/\ Len(requests) <= Len(attempts)
          /\ \A i \in DOMAIN requests : requests[i].label = attempts[i].label
          /\ pc = "fetch" => (attempt = Len(requests) + 1 /\ attempt <= Len(attempts))
          /\ source_label # "None" =>
                 /\ requests[Len(requests)] = [label |-> source_label, exc |-> NoExc]
                 /\ AllFailed(SubSeq(requests, 1, Len(requests) - 1))
          /\ pc = "fetch_error" =>
                 /\ requests # <<>>
                 /\ AllFailed(requests)
                 /\ last_exc = requests[Len(requests)].exc
                 /\ source_label = "None")
    /\ <>(pc # "fetch")

C13_Witness ==
    /\ pc = "fetch_error"
    /\ requests = << [label |-> "primary", exc |-> HTTPError(403)],
                     [label |-> "fallback", exc |-> OtherError] >>
    /\ last_exc = OtherError

\* the lines that are neither blank nor rows nor weekday bullets
PlainLines == {MarkerLine, TextLine, OtherBullet}

\* C14: while a table of a weekday is open, a non-blank line that does not
\* start with "|" closes it, whether or not a row was buffered: unless the
\* line is itself a weekday bullet, no day is pending after it.
C14_NonRowLineEndsTable ==
    [][(pc = "scan" /\ pending_day # None /\ line' \in PlainLines)
          => pending_day' = None]_vars

\* C15: while a table of a weekday is open a blank line changes nothing: the
\* table is not finalized, and the pending weekday and the buffered rows
\* stay as they are, so the rows after the blank line are buffered as if it
\* were absent.
C15_BlankLineInTable ==
    [][(pc = "scan" /\ pending_day # None /\ line' = BlankLine)
          => /\ UNCHANGED <<in_week_section, pending_day, pending_rows, time_map>>
             /\ pc' = "scan"]_vars

C15_Witness ==
    /\ line = BlankLine
    /\ pending_day = Sat
    /\ Len(pending_rows) = 1
    /\ pending_rows[1][1] = W_5_8
    /\ Sat \notin DOMAIN time_map

\* C16: a line starting with "|" that is a separator row, has fewer than two
\* cells or has no time range in its second cell changes nothing, whether a
\* table is open or not: it is not buffered, it does not end the table and
\* the loop goes on, so the mapping returned is that of the text without it.
C16_SkippedRows ==
    [][(pc = "scan" /\ line' \in SkippedRows)
          => /\ UNCHANGED <<in_week_section, pending_day, pending_rows, time_map>>
             /\ pc' = "scan"]_vars

C16_Witness ==
    /\ line \in {HeaderRow, NoTimeRow, OneCellRow}
    /\ pc = "scan"
    /\ pending_day = Sun
    /\ Len(pending_rows) = 1
    /\ DOMAIN time_map = {Fri, Sat}

(***************************************************************************)
(* next_weekday on its own.  A date is its proleptic Gregorian ordinal     *)
(* (date.toordinal(): 1 is Monday, 1 January of year 1), taken from        *)
(* 1 .. MaxDay; the target is any weekday ordinal, 0 = Monday.             *)
(***************************************************************************)
MaxDay == 14

\* date.weekday()
Weekday(ordinal) == (ordinal + 6) % 7

WeekdayInit ==
    /\ pc = "weekday"
    /\ current_week = NoWeek
    /\ FetchInit
    /\ ScanInit
    /\ today = NoToday
    /\ output = <<>>
    /\ text = <<>>
    /\ pos = 0
    /\ wk \in {[kind |-> "next_weekday", start |-> start, target |-> target, out |-> 0] :
                  start \in 1 .. MaxDay, target \in 0 .. 6}

\* next_weekday(start, target_weekday): start + timedelta(days=days_ahead)
CallNextWeekday ==
    /\ pc = "weekday"
    /\ wk' = [wk EXCEPT !.out = wk.start + next_weekday(Weekday(wk.start), wk.target)]
    /\ pc' = "returned"
    /\ UNCHANGED <<fetchvars, current_week, scanvars, today, output, text, pos>>

WeekdayNext == CallNextWeekday

SpecWeekday == WeekdayInit /\ [][WeekdayNext]_vars

\* C17: next_weekday returns the earliest date not before the start date
\* that falls on the target weekday: it is at most 6 days after the start
\* date, and is the start date when that is on the target weekday.
C17_NextWeekday ==
    pc = "returned" =>
        /\ wk.out \in wk.start .. wk.start + 6
        /\ Weekday(wk.out) = wk.target
        /\ \A d \in wk.start .. wk.out - 1 : Weekday(d) # wk.target
        /\ Weekday(wk.start) = wk.target => wk.out = wk.start

C17_Witness ==
    /\ pc = "returned"
    /\ wk.start = 6
    /\ wk.target = 5
    /\ wk.out = 6

\* C18: during a scan a label that has an entry keeps having one; and while
\* the table of a label that has an entry holds no buffered row, every step
\* other than an inline bullet of that label (the table going on, or ending at
\* another bullet or at the end of the text) leaves the entry as it was.
C18_LabelsOnlyGrow ==
    [][/\ DOMAIN time_map \subseteq DOMAIN time_map'
       /\ (/\ pc = "scan"
           /\ pending_day \in DOMAIN time_map
           /\ pending_rows = <<>>
           /\ line' \notin InlineFor(pending_day))
             => Entry(time_map', pending_day) = time_map[pending_day]]_vars

C18_Witness ==
    /\ pc = "scan"
    /\ line = Star(Fri)
    /\ pending_day = Fri
    /\ pending_rows = <<>>
    /\ DOMAIN time_map = {Fri, Sun}
    /\ time_map[Fri] = <<C1900, C2100>>

(***************************************************************************)
(* extract_time_ranges on a document that names a weekday twice: the       *)
(* marker line, a block of the day, possibly an inline bullet of another   *)
(* day, and a second block of the same day.  Blocks are those of SpecDoc.  *)
(***************************************************************************)
Between(day) == {<<>>} \cup {<<bullet>> : bullet \in InlineBullets \ InlineFor(day)}

DupDocsOf(day) ==
    {<<MarkerLine>> \o b1 \o mid \o b2 :
        b1 \in Blocks(day), mid \in Between(day), b2 \in Blocks(day)}

DupDocs == UNION {DupDocsOf(day) : day \in Days}

DupInit ==
    /\ pc = "scan"
    /\ current_week \in WeekChoices \cup {NoWeek}
    /\ FetchInit
    /\ ScanInit
    /\ today = NoToday
    /\ output = <<>>
    /\ text \in DupDocs
    /\ pos = 0
    /\ wk = NoWk

DupNext == ScanText \/ EndOfText

SpecDup == DupInit /\ [][DupNext]_vars

\* the bullets of a day in a document, and the lines and ranges of the last
\* of its blocks
BulletsOf(doc, day) == {i \in DOMAIN doc : doc[i] \in InlineFor(day) \cup {Star(day)}}

LastBlockOf(doc, day) ==
    {j \in DOMAIN doc :
        /\ j >= Greatest(BulletsOf(doc, day))
        /\ \A k \in Greatest(BulletsOf(doc, day)) + 1 .. j : doc[k] \notin BulletLines}

LastBlockRanges(doc, day) ==
    {ExpectedRange[doc[j]] : j \in {k \in LastBlockOf(doc, day) : doc[k] \in DOMAIN ExpectedRange}}

\* C19: when a document commits the same label more than once, the returned
\* entry of the label is the range of its last block: the inline range of
\* the last bullet, or the range of a row of the table under it.
C19_LastCommitWins ==
    pc = "extracted" =>
        \A day \in Days :
            Cardinality(BulletsOf(text, day)) >= 2 =>
                /\ day \in DOMAIN time_map
                /\ time_map[day] \in LastBlockRanges(text, day)

C19_Witness ==
    /\ pc = "extracted"
    /\ current_week = 5
    /\ text = <<MarkerLine, FriInline, SatInline, Star(Fri), Row_x, Row_5_8>>
    /\ time_map = (Fri :> <<C0900, C1100>>) @@ (Sat :> ExpectedRange[SatInline])

====
